---- MODULE Spec2Model ----
(***************************************************************************)
(* A model of src/puzzle.py: the 8-puzzle A* solver.                       *)
(*                                                                         *)
(* Boards are Python lists of three lists of three ints; they are modelled *)
(* as functions over 0..2 of functions over 0..2, so that the indices of   *)
(* the model are the indices of the code.  Python lists that are used as   *)
(* lists (the heap, the neighbour list, the path) are sequences, and a     *)
(* Python index pos is the sequence index pos + 1.  PuzzleNode objects     *)
(* live in an arena, the sequence nodes; a node is referred to by its      *)
(* index in the arena and the reference None is 0.                         *)
(***************************************************************************)
EXTENDS Integers, Sequences, FiniteSets, TLC

VARIABLES
    problem,            \* the Problem object: goal_state, use_manhattan, goal_positions, counters
    initial_state,      \* the initial_state argument of the current a_star_solve call
    nodes,              \* every PuzzleNode constructed by the current call
    frontier,           \* the heap of a_star_solve, a list of node references
    explored,           \* the explored set of a_star_solve, a set of board tuples
    max_frontier_size,  \* the local max_frontier_size of a_star_solve
    current_node,       \* the node popped by the last loop iteration (0 before the first)
    neighbors,          \* the list returned by the last get_neighbors call
    path,               \* the list returned by a_star_solve (<<>> when it returned None or nothing yet)
    pc,                 \* where the caller and the search are
    calls,              \* history: for each get_neighbors call on this Problem, how many neighbours it returned
    loop_tops,          \* history: len(frontier) at the top of each loop iteration of the current call
    history             \* history: what the caller saw of each a_star_solve call that ended

vars == <<problem, initial_state, nodes, frontier, explored, max_frontier_size,
          current_node, neighbors, path, pc, calls, loop_tops, history>>

-----------------------------------------------------------------------------
(* Bounds of the model. *)

\* initial boards are drawn from the boards at most MaxDepth moves from the goal
MaxDepth == 5
\* a loop iteration that expands is taken only while the arena holds at most MaxNodes nodes
MaxNodes == 90
\* a caller makes at most MaxRuns calls of a_star_solve
MaxRuns == 2

-----------------------------------------------------------------------------
(* Boards. *)

\* the Python literal [[a,b,c],[d,e,f],[g,h,i]], written as the flat tuple <<a,..,i>>
Board(t) == [i \in 0..2 |-> [j \in 0..2 |-> t[3 * i + j + 1]]]

\* None, as a value that is no board and no node
None == <<>>

\* tuple(tuple(row) for row in node_state): the hashable key of a board
state_tuple(node_state) ==
    << <<node_state[0][0], node_state[0][1], node_state[0][2]>>,
       <<node_state[1][0], node_state[1][1], node_state[1][2]>>,
       <<node_state[2][0], node_state[2][1], node_state[2][2]>> >>

\* F applied to the value of v, v being evaluated once
Bind(v, F(_)) == CHOOSE r \in {F(x) : x \in {v}} : TRUE

Abs(x) == IF x < 0 THEN -x ELSE x

\* max that returns its second argument
Max_second(a, b) == b

Max(a, b) == IF a > b THEN a ELSE b

-----------------------------------------------------------------------------
(* PuzzleNode. *)

\* get_hole_location that returns the first cell instead of raising
get_hole_location_no_raise(node_state) ==
    LET zeros == {k \in 0..8 : node_state[k \div 3][k % 3] = 0}
    IN  IF zeros = {} THEN <<0, 0>>
        ELSE LET k == CHOOSE z \in zeros : \A y \in zeros : z <= y
             IN  <<k \div 3, k % 3>>

\* PuzzleNode.get_hole_location: the first cell, in row-major order, that holds 0;
\* <<>> stands for "raise ValueError".
get_hole_location(node_state) ==
    LET zeros == {k \in 0..8 : node_state[k \div 3][k % 3] = 0}
    IN  IF zeros = {} THEN <<>>
        ELSE LET k == CHOOSE z \in zeros : \A y \in zeros : z <= y
             IN  <<k \div 3, k % 3>>

\* PuzzleNode.__init__ that copies the parent's g without adding the move
PuzzleNode_same_g(arena, node_state, parent_node, h) ==
    [node_state    |-> node_state,
     parent_node   |-> parent_node,
     g             |-> IF parent_node # 0 THEN arena[parent_node].g ELSE 0,
     h             |-> h,
     hole_location |-> get_hole_location(node_state)]

\* PuzzleNode.__init__ that takes the hole location over from the parent
PuzzleNode_parent_hole(arena, node_state, parent_node, h) ==
    [node_state    |-> node_state,
     parent_node   |-> parent_node,
     g             |-> IF parent_node # 0 THEN arena[parent_node].g + 1 ELSE 0,
     h             |-> h,
     hole_location |-> IF parent_node # 0 THEN arena[parent_node].hole_location
                       ELSE get_hole_location(node_state)]

\* PuzzleNode.__init__; arena is the arena the parent reference points into
PuzzleNode(arena, node_state, parent_node, h) ==
    [node_state    |-> node_state,
     parent_node   |-> parent_node,
     g             |-> IF parent_node # 0 THEN arena[parent_node].g + 1 ELSE 0,
     h             |-> h,
     hole_location |-> get_hole_location(node_state)]

\* __lt__ that orders the nodes by h alone
lt_h_only(self, other) == self.h < other.h

\* __lt__ with f computed as h - g
lt_minus(self, other) == (self.h - self.g) < (other.h - other.g)

\* __lt__ with the comparison turned round
lt_reversed(self, other) == (self.g + self.h) > (other.g + other.h)

\* PuzzleNode.__lt__
lt(self, other) == (self.g + self.h) < (other.g + other.h)

-----------------------------------------------------------------------------
(* Problem. *)

DefaultGoal == Board(<<1, 2, 3, 4, 5, 6, 7, 8, 0>>)

\* the dict built by the two loops of Problem.__init__: a later cell overwrites an
\* earlier one that holds the same tile
goal_positions_of(goal_state) ==
    LET tiles == {goal_state[i][j] : i \in 0..2, j \in 0..2}
    IN  [tile \in tiles |->
            LET k == CHOOSE z \in 0..8 :
                        /\ goal_state[z \div 3][z % 3] = tile
                        /\ \A y \in 0..8 : goal_state[y \div 3][y % 3] = tile => y <= z
            IN  <<k \div 3, k % 3>>]

\* Problem.__init__
Problem(goal_state, use_manhattan) ==
    LET gs == IF goal_state # None THEN goal_state ELSE DefaultGoal
    IN  [goal_state      |-> gs,
         use_manhattan   |-> use_manhattan,
         goal_positions  |-> goal_positions_of(gs),
         nodes_expanded  |-> 0,
         nodes_generated |-> 0]

\* the loops of calculate_manhattan_distance without the test tile != 0
RECURSIVE manhattan_loop_counts_hole(_, _, _)
manhattan_loop_counts_hole(self, state, k) ==
    IF k = 9 THEN 0
    ELSE LET i == k \div 3
             j == k % 3
             tile == state[i][j]
         IN  (IF tile \in DOMAIN self.goal_positions
              THEN Abs(i - self.goal_positions[tile][1]) + Abs(j - self.goal_positions[tile][2])
              ELSE 0)
             + manhattan_loop_counts_hole(self, state, k + 1)

\* the loops of calculate_manhattan_distance adding every distance twice
RECURSIVE manhattan_loop_doubled(_, _, _)
manhattan_loop_doubled(self, state, k) ==
    IF k = 9 THEN 0
    ELSE LET i == k \div 3
             j == k % 3
             tile == state[i][j]
         IN  (IF tile # 0 /\ tile \in DOMAIN self.goal_positions
              THEN 2 * (Abs(i - self.goal_positions[tile][1])
                        + Abs(j - self.goal_positions[tile][2]))
              ELSE 0)
             + manhattan_loop_doubled(self, state, k + 1)

RECURSIVE manhattan_loop(_, _, _)
manhattan_loop(self, state, k) ==
    IF k = 9 THEN 0
    ELSE LET i == k \div 3
             j == k % 3
             tile == state[i][j]
         IN  (IF tile # 0 /\ tile \in DOMAIN self.goal_positions
              THEN Abs(i - self.goal_positions[tile][1]) + Abs(j - self.goal_positions[tile][2])
              ELSE 0)
             + manhattan_loop(self, state, k + 1)

\* calculate_manhattan_distance that returns its initial h
manhattan_zero(self, state) == 0

\* Problem.calculate_manhattan_distance
calculate_manhattan_distance(self, state) == manhattan_loop(self, state, 0)

RECURSIVE misplaced_loop(_, _, _)
misplaced_loop(self, state, tile) ==
    IF tile = 9 THEN 0
    ELSE (IF tile \in DOMAIN self.goal_positions
             /\ tile # state[self.goal_positions[tile][1]][self.goal_positions[tile][2]]
          THEN 1 ELSE 0)
         + misplaced_loop(self, state, tile + 1)

\* Problem.calculate_misplaced_tiles
calculate_misplaced_tiles(self, state) == misplaced_loop(self, state, 1)

\* Problem.calculate_heuristic
calculate_heuristic(self, state) ==
    IF self.use_manhattan
    THEN calculate_manhattan_distance(self, state)
    ELSE calculate_misplaced_tiles(self, state)

\* the dict lookups self.goal_positions[tile] of the two heuristics raise KeyError
\* for a tile the goal board does not hold
raises_KeyError(self, state) ==
    IF self.use_manhattan
    THEN \E i \in 0..2, j \in 0..2 :
            state[i][j] # 0 /\ state[i][j] \notin DOMAIN self.goal_positions
    ELSE \E tile \in 1..8 : tile \notin DOMAIN self.goal_positions

\* Problem.is_valid_move
is_valid_move(i, j) == 0 <= i /\ i < 3 /\ 0 <= j /\ j < 3

\* the offsets with "up" written twice and "left" missing
deltas_up_twice == << <<1, 0>>, <<-1, 0>>, <<0, 1>>, <<-1, 0>> >>

\* the list of candidate offsets of get_neighbors, in the order of the code
deltas == << <<1, 0>>, <<-1, 0>>, <<0, 1>>, <<0, -1>> >>

\* the copy of the board with the cells (hole_i, hole_j) and (new_i, new_j) swapped
swapped_state(node_state, hole_i, hole_j, new_i, new_j) ==
    [i \in 0..2 |-> [j \in 0..2 |->
        IF i = hole_i /\ j = hole_j THEN node_state[new_i][new_j]
        ELSE IF i = new_i /\ j = new_j THEN node_state[hole_i][hole_j]
        ELSE node_state[i][j]]]

\* the for loop of get_neighbors with new_state = current_node.node_state, no copy:
\* the swap is made in the board of the expanding node, which the neighbour shares
RECURSIVE get_neighbors_loop_in_place(_, _, _)
get_neighbors_loop_in_place(acc, current, k) ==
    IF k > Len(deltas) \/ acc.raised THEN acc
    ELSE LET cur == acc.arena[current]
             hole_i == cur.hole_location[1]
             hole_j == cur.hole_location[2]
             new_i == hole_i + deltas[k][1]
             new_j == hole_j + deltas[k][2]
         IN  IF is_valid_move(new_i, new_j)
             THEN LET new_state == swapped_state(cur.node_state, hole_i, hole_j, new_i, new_j)
                  IN  IF raises_KeyError(acc.self, new_state)
                         \/ get_hole_location(new_state) = <<>>
                      THEN [acc EXCEPT !.raised = TRUE]
                      ELSE LET new_h == calculate_heuristic(acc.self, new_state)
                               new_node == PuzzleNode(acc.arena, new_state, current, new_h)
                           IN  Bind([acc EXCEPT
                                      !.arena = Append([acc.arena EXCEPT
                                                           ![current].node_state = new_state],
                                                       new_node),
                                      !.neighbors = Append(acc.neighbors, Len(acc.arena) + 1),
                                      !.self.nodes_generated = acc.self.nodes_generated + 1],
                                    LAMBDA a : get_neighbors_loop_in_place(a, current, k + 1))
             ELSE get_neighbors_loop_in_place(acc, current, k + 1)

\* the for loop of get_neighbors from its k-th offset on; acc is the state so far:
\* the Problem, the arena, the neighbors list and whether an exception was raised
RECURSIVE get_neighbors_loop(_, _, _)
get_neighbors_loop(acc, current, k) ==
    IF k > Len(deltas) \/ acc.raised THEN acc
    ELSE LET cur == acc.arena[current]
             hole_i == cur.hole_location[1]
             hole_j == cur.hole_location[2]
             new_i == hole_i + deltas[k][1]
             new_j == hole_j + deltas[k][2]
         IN  IF is_valid_move(new_i, new_j)
             THEN LET new_state == swapped_state(cur.node_state, hole_i, hole_j, new_i, new_j)
                  IN  IF raises_KeyError(acc.self, new_state)
                         \/ get_hole_location(new_state) = <<>>
                      THEN [acc EXCEPT !.raised = TRUE]
                      ELSE LET new_h == calculate_heuristic(acc.self, new_state)
                               new_node == PuzzleNode(acc.arena, new_state, current, new_h)
                           IN  Bind([acc EXCEPT
                                      !.arena = Append(acc.arena, new_node),
                                      !.neighbors = Append(acc.neighbors, Len(acc.arena) + 1),
                                      !.self.nodes_generated = acc.self.nodes_generated + 1],
                                    LAMBDA a : get_neighbors_loop(a, current, k + 1))
             ELSE get_neighbors_loop(acc, current, k + 1)

\* get_neighbors that counts an expansion for every neighbour it generates
get_neighbors_miscounting(self, arena, current) ==
    LET r == get_neighbors_loop(
                [self      |-> self,
                 arena     |-> arena,
                 neighbors |-> <<>>,
                 raised    |-> FALSE],
                current, 1)
    IN  [r EXCEPT !.self.nodes_expanded = self.nodes_expanded + Len(r.neighbors)]

\* Problem.get_neighbors(current_node), current_node being arena[current]
get_neighbors(self, arena, current) ==
    get_neighbors_loop(
        [self      |-> [self EXCEPT !.nodes_expanded = self.nodes_expanded + 1],
         arena     |-> arena,
         neighbors |-> <<>>,
         raised    |-> FALSE],
        current, 1)

-----------------------------------------------------------------------------
(* heapq, on a list of node references; the order is PuzzleNode.__lt__. *)

RECURSIVE siftdown_loop(_, _, _, _, _)
siftdown_loop(arena, heap, startpos, pos, newitem) ==
    IF pos > startpos
    THEN LET parentpos == (pos - 1) \div 2
             parent == heap[parentpos + 1]
         IN  IF lt(arena[newitem], arena[parent])
             THEN Bind([heap EXCEPT ![pos + 1] = parent],
                       LAMBDA x : siftdown_loop(arena, x, startpos, parentpos, newitem))
             ELSE [heap EXCEPT ![pos + 1] = newitem]
    ELSE [heap EXCEPT ![pos + 1] = newitem]

\* heapq._siftdown
siftdown(arena, heap, startpos, pos) ==
    siftdown_loop(arena, heap, startpos, pos, heap[pos + 1])

RECURSIVE siftup_loop(_, _, _, _)
siftup_loop(arena, heap, pos, newitem) ==
    LET endpos == Len(heap)
        childpos == 2 * pos + 1
        rightpos == childpos + 1
    IN  IF childpos < endpos
        THEN LET c == IF rightpos < endpos
                         /\ ~lt(arena[heap[childpos + 1]], arena[heap[rightpos + 1]])
                      THEN rightpos ELSE childpos
             IN  Bind([heap EXCEPT ![pos + 1] = heap[c + 1]],
                      LAMBDA x : siftup_loop(arena, x, c, newitem))
        ELSE [heap |-> [heap EXCEPT ![pos + 1] = newitem], pos |-> pos]

\* heapq._siftup
siftup(arena, heap, pos) ==
    Bind(siftup_loop(arena, heap, pos, heap[pos + 1]),
         LAMBDA r : siftdown(arena, r.heap, pos, r.pos))

\* heapq.heappush
heappush(arena, heap, item) ==
    Bind(Append(heap, item), LAMBDA x : siftdown(arena, x, 0, Len(x) - 1))

\* heapq.heappop of a non-empty heap: the item returned and the heap left
heappop(arena, heap) ==
    LET lastelt == heap[Len(heap)]
        rest == SubSeq(heap, 1, Len(heap) - 1)
    IN  IF rest # <<>>
        THEN [item |-> rest[1], heap |-> siftup(arena, [rest EXCEPT ![1] = lastelt], 0)]
        ELSE [item |-> lastelt, heap |-> rest]

RECURSIVE heapify_loop(_, _, _)
heapify_loop(arena, x, i) ==
    IF i < 0 THEN x
    ELSE Bind(siftup(arena, x, i), LAMBDA y : heapify_loop(arena, y, i - 1))

\* heapq.heapify
heapify(arena, x) == heapify_loop(arena, x, (Len(x) \div 2) - 1)

-----------------------------------------------------------------------------
(* construct_path and the pieces of a_star_solve. *)

RECURSIVE construct_path_loop(_, _, _)
construct_path_loop(arena, current, acc) ==
    IF current = 0 THEN acc
    ELSE Bind(arena[current].parent_node,
              LAMBDA parent : construct_path_loop(arena, parent, <<current>> \o acc))

\* construct_path without path.reverse()
RECURSIVE construct_path_unreversed(_, _)
construct_path_unreversed(arena, goal_node) ==
    IF goal_node = 0 THEN <<>>
    ELSE <<goal_node>> \o construct_path_unreversed(arena, arena[goal_node].parent_node)

\* construct_path: the references from the node without parent down to goal_node
construct_path(arena, goal_node) == construct_path_loop(arena, goal_node, <<>>)

\* the for loop over neighbors, leaving the loop after the first push
RECURSIVE push_first_unexplored(_, _, _, _, _)
push_first_unexplored(arena, heap, seen, nbrs, k) ==
    IF k > Len(nbrs) THEN heap
    ELSE IF state_tuple(arena[nbrs[k]].node_state) \notin seen
         THEN heappush(arena, heap, nbrs[k])
         ELSE push_first_unexplored(arena, heap, seen, nbrs, k + 1)

\* the for loop over neighbors without the test against the explored set
RECURSIVE push_all(_, _, _, _, _)
push_all(arena, heap, seen, nbrs, k) ==
    IF k > Len(nbrs) THEN heap
    ELSE Bind(heappush(arena, heap, nbrs[k]),
              LAMBDA x : push_all(arena, x, seen, nbrs, k + 1))

\* the for loop over neighbors, not pushing a board the frontier holds already
RECURSIVE push_unexplored_once(_, _, _, _, _)
push_unexplored_once(arena, heap, seen, nbrs, k) ==
    IF k > Len(nbrs) THEN heap
    ELSE Bind(IF /\ state_tuple(arena[nbrs[k]].node_state) \notin seen
                 /\ \A m \in 1..Len(heap) :
                       arena[heap[m]].node_state # arena[nbrs[k]].node_state
              THEN heappush(arena, heap, nbrs[k]) ELSE heap,
              LAMBDA x : push_unexplored_once(arena, x, seen, nbrs, k + 1))

\* the for loop over neighbors at the end of an iteration of a_star_solve
RECURSIVE push_unexplored(_, _, _, _, _)
push_unexplored(arena, heap, seen, nbrs, k) ==
    IF k > Len(nbrs) THEN heap
    ELSE Bind(IF state_tuple(arena[nbrs[k]].node_state) \notin seen
              THEN heappush(arena, heap, nbrs[k]) ELSE heap,
              LAMBDA x : push_unexplored(arena, x, seen, nbrs, k + 1))

\* a goal test that passes over the node without parent
is_goal_of_child(self, node) == node.parent_node # 0 /\ node.node_state = self.goal_state

\* the goal test of a_star_solve
is_goal(self, node) == node.node_state = self.goal_state

-----------------------------------------------------------------------------
(* The sliding-tile move graph, stated without the code: what a legal move  *)
(* is.  The inputs of the model and the claims are stated with it.         *)

Cells == (0..2) \X (0..2)

\* two cells are orthogonally adjacent
Adjacent(c, d) == Abs(c[1] - d[1]) + Abs(c[2] - d[2]) = 1

\* the board holds each of 0..8 exactly once
ValidBoard(b) == b # None /\ {b[c[1]][c[2]] : c \in Cells} = 0..8

\* t is s with its hole (at cell c) and the tile of an adjacent cell d exchanged
LegalMove(s, t) ==
    \E c \in Cells, d \in Cells :
        /\ Adjacent(c, d)
        /\ s[c[1]][c[2]] = 0
        /\ t[c[1]][c[2]] = s[d[1]][d[2]]
        /\ t[d[1]][d[2]] = 0
        /\ \A e \in Cells \ {c, d} : t[e[1]][e[2]] = s[e[1]][e[2]]

\* the boards one legal move away from b
Moves(b) ==
    {[i \in 0..2 |-> [j \in 0..2 |->
        IF <<i, j>> = m[1] THEN b[m[2][1]][m[2][2]]
        ELSE IF <<i, j>> = m[2] THEN 0
        ELSE b[i][j]]] :
     m \in {m \in Cells \X Cells : b[m[1][1]][m[1][2]] = 0 /\ Adjacent(m[1], m[2])}}

\* the boards at most d legal moves away from the boards of level (seen holds
\* level and everything nearer)
RECURSIVE Within(_, _, _)
Within(level, seen, d) ==
    IF d = 0 \/ level = {} THEN seen
    ELSE LET next == UNION {Moves(b) : b \in level} \ seen
         IN  Within(next, seen \cup next, d - 1)

\* the boards at most d legal moves away from b
Near(b, d) == Within({b}, {b}, d)

-----------------------------------------------------------------------------
(* The inputs the model draws. *)

\* a second valid goal, with the hole in the centre
SpiralGoal == Board(<<1, 2, 3, 8, 0, 4, 7, 6, 5>>)

\* a goal without hole, the tile 8 twice; and a goal without the tile 8, two holes
InvalidGoals == {Board(<<1, 2, 3, 4, 5, 6, 7, 8, 8>>), Board(<<1, 2, 3, 4, 5, 6, 7, 0, 0>>)}

\* what a caller may pass as goal_state: a board, or None for the default
GoalInputs == {None, DefaultGoal, SpiralGoal} \cup InvalidGoals

\* DefaultGoal with the tiles 7 and 8 exchanged: DefaultGoal is not reachable from it
SwappedDefault == Board(<<1, 2, 3, 4, 5, 6, 8, 7, 0>>)

\* a board without hole
HolelessBoard == Board(<<1, 2, 3, 4, 5, 6, 7, 8, 9>>)

\* a board of one hole and eight tiles 1: only nine boards are reachable from it
UniformBoard == Board(<<0, 1, 1, 1, 1, 1, 1, 1, 1>>)

ValidGoals == {DefaultGoal, SpiralGoal}

\* for each valid goal, the boards at most MaxDepth legal moves away from it
NearGoal == [g \in ValidGoals |-> Near(g, MaxDepth)]

\* what a caller may pass as initial_state to a Problem with this goal
InitialInputs(goal_state) ==
    IF goal_state \in ValidGoals
    THEN NearGoal[goal_state] \cup {SwappedDefault, HolelessBoard, UniformBoard}
    ELSE {DefaultGoal, HolelessBoard}

-----------------------------------------------------------------------------
(* The state machine: a caller that builds a Problem and calls a_star_solve. *)

Terminal == {"Succeeded", "Failed", "Error"}

\* what the caller sees of the call that just ended in outcome
Finished(outcome, self, returned, mfs) ==
    [history EXCEPT ![Len(history)] =
        [@ EXCEPT !.outcome = outcome,
                  !.path_len = Len(returned),
                  !.nodes_expanded = self.nodes_expanded,
                  !.nodes_generated = self.nodes_generated,
                  !.max_frontier_size = mfs]]

Init ==
    /\ \E goal_state \in GoalInputs, use_manhattan \in BOOLEAN :
          problem = Problem(goal_state, use_manhattan)
    /\ initial_state = None
    /\ nodes = <<>>
    /\ frontier = <<>>
    /\ explored = {}
    /\ max_frontier_size = 0
    /\ current_node = 0
    /\ neighbors = <<>>
    /\ path = <<>>
    /\ pc = "Initializing"
    /\ calls = <<>>
    /\ loop_tops = <<>>
    /\ history = <<>>

\* the caller builds a fresh Problem for the same goal: Problem.__init__
Configure(use_manhattan) ==
    /\ pc \in Terminal
    /\ Len(history) < MaxRuns
    /\ problem' = Problem(problem.goal_state, use_manhattan)
    /\ calls' = <<>>
    /\ pc' = "Initializing"
    /\ UNCHANGED <<initial_state, nodes, frontier, explored, max_frontier_size,
                   current_node, neighbors, path, loop_tops, history>>

\* a_star_solve whose explored set outlives the call (a set shared by all calls)
Solve_keeps_explored(initial) ==
    /\ pc \in Terminal \cup {"Initializing"}
    /\ Len(history) < MaxRuns
    /\ history # <<>> => initial = initial_state
    /\ initial_state' = initial
    /\ explored' = explored
    /\ current_node' = 0
    /\ neighbors' = <<>>
    /\ path' = <<>>
    /\ loop_tops' = <<>>
    /\ UNCHANGED <<problem, calls>>
    /\ LET started == Append(history,
                        [use_manhattan     |-> problem.use_manhattan,
                         start_expanded    |-> problem.nodes_expanded,
                         start_generated   |-> problem.nodes_generated,
                         outcome           |-> "Searching",
                         path_len          |-> 0,
                         nodes_expanded    |-> problem.nodes_expanded,
                         nodes_generated   |-> problem.nodes_generated,
                         max_frontier_size |-> 0])
       IN  IF get_hole_location(initial) = <<>> \/ raises_KeyError(problem, initial)
           THEN /\ nodes' = <<>>
                /\ frontier' = <<>>
                /\ max_frontier_size' = 0
                /\ pc' = "Error"
                /\ history' = [started EXCEPT ![Len(started)].outcome = "Error"]
           ELSE LET initial_node ==
                        [PuzzleNode(<<>>, initial, 0, 0) EXCEPT
                            !.h = calculate_heuristic(problem, initial)]
                IN  /\ nodes' = <<initial_node>>
                    /\ frontier' = heapify(<<initial_node>>, <<1>>)
                    /\ max_frontier_size' = 1
                    /\ pc' = "Searching"
                    /\ history' = started

\* a_star_solve(problem, initial) up to its while loop
Solve(initial) ==
    /\ pc \in Terminal \cup {"Initializing"}
    /\ Len(history) < MaxRuns
    /\ history # <<>> => initial = initial_state
    /\ initial_state' = initial
    /\ explored' = {}
    /\ current_node' = 0
    /\ neighbors' = <<>>
    /\ path' = <<>>
    /\ loop_tops' = <<>>
    /\ UNCHANGED <<problem, calls>>
    /\ LET started == Append(history,
                        [use_manhattan     |-> problem.use_manhattan,
                         start_expanded    |-> problem.nodes_expanded,
                         start_generated   |-> problem.nodes_generated,
                         outcome           |-> "Searching",
                         path_len          |-> 0,
                         nodes_expanded    |-> problem.nodes_expanded,
                         nodes_generated   |-> problem.nodes_generated,
                         max_frontier_size |-> 0])
       IN  IF get_hole_location(initial) = <<>> \/ raises_KeyError(problem, initial)
           THEN /\ nodes' = <<>>
                /\ frontier' = <<>>
                /\ max_frontier_size' = 0
                /\ pc' = "Error"
                /\ history' = [started EXCEPT ![Len(started)].outcome = "Error"]
           ELSE LET initial_node ==
                        [PuzzleNode(<<>>, initial, 0, 0) EXCEPT
                            !.h = calculate_heuristic(problem, initial)]
                IN  /\ nodes' = <<initial_node>>
                    /\ frontier' = heapify(<<initial_node>>, <<1>>)
                    /\ max_frontier_size' = 1
                    /\ pc' = "Searching"
                    /\ history' = started

\* a loop iteration whose popped node holds the goal: return construct_path(current_node)
GoalFound ==
    /\ pc = "Searching"
    /\ frontier # <<>>
    /\ \E popped \in {heappop(nodes, frontier)},
          mfs \in {Max(max_frontier_size, Len(frontier))} :
           /\ is_goal(problem, nodes[popped.item])
           /\ max_frontier_size' = mfs
           /\ loop_tops' = Append(loop_tops, Len(frontier))
           /\ current_node' = popped.item
           /\ frontier' = popped.heap
           /\ path' = construct_path(nodes, popped.item)
           /\ pc' = "Succeeded"
           /\ history' = Finished("Succeeded", problem, path', mfs)
    /\ UNCHANGED <<problem, initial_state, nodes, explored, neighbors, calls>>

\* a loop iteration whose popped node does not hold the goal
Expand ==
    /\ pc = "Searching"
    /\ frontier # <<>>
    /\ Len(nodes) <= MaxNodes
    /\ \E popped \in {heappop(nodes, frontier)},
          mfs \in {Max(max_frontier_size, Len(frontier))} :
       \E current_state_tuple \in {state_tuple(nodes[popped.item].node_state)},
          r \in {get_neighbors(problem, nodes, popped.item)} :
           /\ ~is_goal(problem, nodes[popped.item])
           /\ max_frontier_size' = mfs
           /\ loop_tops' = Append(loop_tops, Len(frontier))
           /\ current_node' = popped.item
           /\ problem' = r.self
           /\ nodes' = r.arena
           /\ neighbors' = r.neighbors
           /\ calls' = Append(calls, Len(r.neighbors))
           /\ IF r.raised
              THEN /\ frontier' = popped.heap
                   /\ explored' = explored
                   /\ pc' = "Error"
                   /\ history' = Finished("Error", r.self, <<>>, mfs)
              ELSE /\ explored' = explored \cup {current_state_tuple}
                   /\ frontier' = push_unexplored(r.arena, popped.heap, explored',
                                                  r.neighbors, 1)
                   /\ pc' = "Searching"
                   /\ history' = history
    /\ UNCHANGED <<initial_state, path>>

\* the frontier is empty: return None
Fail ==
    /\ pc = "Searching"
    /\ frontier = <<>>
    /\ path' = None
    /\ pc' = "Failed"
    /\ history' = Finished("Failed", problem, <<>>, max_frontier_size)
    /\ UNCHANGED <<problem, initial_state, nodes, frontier, explored, max_frontier_size,
                   current_node, neighbors, calls, loop_tops>>

Next ==
    \/ \E use_manhattan \in BOOLEAN : Configure(use_manhattan)
    \/ \E initial \in InitialInputs(problem.goal_state) : Solve(initial)
    \/ GoalFound
    \/ Expand
    \/ Fail

Spec == Init /\ [][Next]_vars

\* one call of a_star_solve on a fresh Problem
FirstCall ==
    \/ history = <<>> /\ \E initial \in InitialInputs(problem.goal_state) : Solve(initial)
    \/ GoalFound
    \/ Expand
    \/ Fail

\* a_star_solve runs its loop to the end without suspension: once called, its
\* iterations are taken; the caller's call itself is not forced
FairSpec == Init /\ [][FirstCall]_vars /\ WF_vars(GoalFound \/ Expand \/ Fail)

-----------------------------------------------------------------------------
(* What the claims are stated with. *)

\* the boards of the nodes a list of references refers to
BoardsOf(refs) == {nodes[refs[k]].node_state : k \in 1..Len(refs)}

\* the board a key of the explored set stands for
BoardOfTuple(t) == [i \in 0..2 |-> [j \in 0..2 |-> t[i + 1][j + 1]]]

GoalBoard == problem.goal_state

\* the call under way, or the last one, was given a validated pair of boards
ValidatedPair == ValidBoard(initial_state) /\ ValidBoard(GoalBoard)

\* the levels of a breadth-first search of the move graph: levels[d + 1] holds the
\* boards whose shortest-path distance from the start is d, for d up to depth
RECURSIVE BfsLevels(_, _, _)
BfsLevels(levels, seen, depth) ==
    IF depth = 0 THEN levels
    ELSE LET next == UNION {Moves(b) : b \in levels[Len(levels)]} \ seen
         IN  BfsLevels(Append(levels, next), seen \cup next, depth - 1)

\* distances are looked up to MaxDepth + DistMargin moves from a goal
DistMargin == 5

\* for each valid goal, the levels of the breadth-first search from it
GoalLevels == [g \in ValidGoals |-> BfsLevels(<<{g}>>, {g}, MaxDepth + DistMargin)]

\* the breadth-first distance between board s and the valid goal g (legal moves can
\* be taken back, so it is the same in both directions); -1 beyond the levels computed
BfsDistance(s, g) ==
    LET ds == {d \in 1..Len(GoalLevels[g]) : s \in GoalLevels[g][d]}
    IN  IF ds = {} THEN -1 ELSE (CHOOSE d \in ds : TRUE) - 1

\* the number of pairs of tiles (the hole left out) that stand in the wrong order
\* when the board is read row by row
Inversions(b) ==
    Cardinality({q \in (0..8) \X (0..8) :
        /\ q[1] < q[2]
        /\ b[q[1] \div 3][q[1] % 3] # 0
        /\ b[q[2] \div 3][q[2] % 3] # 0
        /\ b[q[1] \div 3][q[1] % 3] > b[q[2] \div 3][q[2] % 3]})

\* board g can be reached from board s by legal moves.  For two validated boards of
\* a board of odd width this is: the same parity of inversions.  A board that is not
\* validated is drawn only where few boards are reachable, and those are enumerated.
Reachable(s, g) ==
    IF ValidBoard(s)
    THEN ValidBoard(g) /\ Inversions(s) % 2 = Inversions(g) % 2
    ELSE g \in Near(s, 20)

\* the returned path starts at the initial board, ends at the goal board, and each
\* entry is one legal move from the one before
PathIsValid ==
    /\ path # <<>>
    /\ nodes[path[1]].node_state = initial_state
    /\ nodes[path[Len(path)]].node_state = GoalBoard
    /\ \A k \in 1..(Len(path) - 1) :
          LegalMove(nodes[path[k]].node_state, nodes[path[k + 1]].node_state)

-----------------------------------------------------------------------------
(* C1: for a validated pair of boards and either heuristic, a returned path has *)
(* the minimum number of moves: len(path) - 1 is the breadth-first distance     *)
(* between the initial board and the goal board.                                 *)
C1_PathIsShortest ==
    (pc = "Succeeded" /\ ValidatedPair) =>
        Len(path) - 1 = BfsDistance(initial_state, GoalBoard)

\* a search with the misplaced-tiles heuristic returned a path of MaxDepth moves
C1_Witness ==
    /\ pc = "Succeeded"
    /\ ValidatedPair
    /\ ~problem.use_manhattan
    /\ Len(path) - 1 = MaxDepth
    /\ problem.nodes_expanded > MaxDepth

(* C2: a returned path of n+1 nodes starts at the initial board, ends at the     *)
(* goal board, each two consecutive entries differ by exactly one legal move,    *)
(* and the g of path[k] is k.                                                    *)
C2_PathLaw ==
    pc = "Succeeded" =>
        /\ PathIsValid
        /\ \A k \in 1..Len(path) : nodes[path[k]].g = k - 1

\* a path of more than two nodes was returned
C2_Witness == pc = "Succeeded" /\ Len(path) > 2 /\ PathIsValid

(* C3: a_star_solve returns a valid path only for a pair whose goal is        *)
(* reachable and None only for a pair whose goal is not reachable.  While the  *)
(* search runs, the explored boards and the boards of the frontier are closed  *)
(* under legal moves from the initial board and the goal is not explored, so   *)
(* that an empty frontier means every reachable board was explored.            *)
ExploredBoards == {BoardOfTuple(t) : t \in explored}

SearchIsClosed ==
    pc \in {"Searching", "Failed"} =>
        /\ initial_state \in ExploredBoards \cup BoardsOf(frontier)
        /\ \A b \in ExploredBoards : Moves(b) \subseteq ExploredBoards \cup BoardsOf(frontier)
        /\ GoalBoard \notin ExploredBoards

StaleCount ==
    Cardinality({k \in 1..Len(frontier) :
                    state_tuple(nodes[frontier[k]].node_state) \in explored})

\* the tiles of a board with how often each occurs
TileCount(b) == [v \in 0..9 |-> Cardinality({c \in Cells : b[c[1]][c[2]] = v})]

ExitsAreTheTwo ==
    /\ pc = "Succeeded" => current_node # 0 /\ nodes[current_node].node_state = GoalBoard
    /\ pc = "Failed" => frontier = <<>>
    /\ ValidatedPair => pc # "Error"
    /\ pc \in {"Searching", "Succeeded", "Failed"} =>
          \A b \in ExploredBoards : TileCount(b) = TileCount(initial_state)

IterationMakesProgress ==
    (pc = "Searching" /\ pc' = "Searching") =>
        \/ explored \subseteq explored' /\ Cardinality(explored') = Cardinality(explored) + 1
        \/ explored' = explored /\ StaleCount' < StaleCount

\* the model stops a search whose arena holds more than MaxNodes nodes
OverMaxNodes == pc = "Searching" /\ Len(nodes) > MaxNodes

C5_GoalIsValidated == ValidBoard(GoalBoard)

(* C6: a board without a zero cell never yields a search node, get_neighbors   *)
(* never returns an empty list, and a_star_solve called with such a board ends *)
(* in the error outcome: no path, no None.                                     *)
HasHole(b) == \E c \in Cells : b[c[1]][c[2]] = 0

C6_MissingHoleFailsFast ==
    /\ \A n \in 1..Len(nodes) : HasHole(nodes[n].node_state)
    /\ \A k \in 1..Len(calls) : calls[k] > 0
    /\ (history # <<>> /\ ~HasHole(initial_state)) =>
          /\ history[Len(history)].outcome = "Error"
          /\ nodes = <<>>
          /\ frontier = <<>>
          /\ path = <<>>
          /\ pc \in {"Error", "Initializing"}

\* a_star_solve was called with the board without hole and raised
C6_Witness ==
    /\ pc = "Error"
    /\ initial_state = HolelessBoard
    /\ history[Len(history)].outcome = "Error"

(* C7: for a valid board get_neighbors returns 2 neighbours when the hole is   *)
(* in a corner, 3 when it is on an edge, 4 when it is in the centre, and every *)
(* neighbour's board is one legal move from the board of the expanded node.    *)

\* the last step was a loop iteration that expanded current_node
JustExpanded == pc = "Searching" /\ current_node # 0

\* how many cells are orthogonally adjacent to the hole of board b
HoleDegree(b) ==
    Cardinality({d \in Cells : \E c \in Cells : b[c[1]][c[2]] = 0 /\ Adjacent(c, d)})

\* where the hole of a valid board is
HoleKind(b) ==
    LET c == CHOOSE c \in Cells : b[c[1]][c[2]] = 0
    IN  IF c = <<1, 1>> THEN "center"
        ELSE IF c[1] # 1 /\ c[2] # 1 THEN "corner"
        ELSE "edge"

C7_NeighborCount ==
    (JustExpanded /\ ValidBoard(nodes[current_node].node_state)) =>
        LET b == nodes[current_node].node_state
        IN  /\ Len(neighbors) \in 2..4
            /\ HoleKind(b) = "corner" => Len(neighbors) = 2
            /\ HoleKind(b) = "edge" => Len(neighbors) = 3
            /\ HoleKind(b) = "center" => Len(neighbors) = 4
            /\ \A k \in 1..Len(neighbors) : LegalMove(b, nodes[neighbors[k]].node_state)
            /\ \A k, m \in 1..Len(neighbors) :
                  k # m => nodes[neighbors[k]].node_state # nodes[neighbors[m]].node_state

\* a node with the hole in the centre was expanded
C7_Witness ==
    /\ JustExpanded
    /\ ValidBoard(nodes[current_node].node_state)
    /\ HoleKind(nodes[current_node].node_state) = "center"
    /\ Len(neighbors) = 4

(* C8: nodes_expanded is the number of get_neighbors calls made on the Problem *)
(* and nodes_generated the number of neighbours those calls produced, pushed   *)
(* or not; the counters of a Problem never decrease and only an expanding loop *)
(* iteration changes them.                                                     *)
RECURSIVE SumSeq(_)
SumSeq(q) == IF q = <<>> THEN 0 ELSE q[1] + SumSeq(Tail(q))

CountersMatchCalls ==
    /\ problem.nodes_expanded = Len(calls)
    /\ problem.nodes_generated = SumSeq(calls)

\* the caller replaced the Problem by a fresh one
NewProblem == \E use_manhattan \in BOOLEAN : Configure(use_manhattan)

CountersStep ==
    \/ NewProblem
    \/ /\ problem'.nodes_expanded >= problem.nodes_expanded
       /\ problem'.nodes_generated >= problem.nodes_generated
       /\ (problem' # problem) =>
             /\ Expand
             /\ problem'.nodes_expanded = problem.nodes_expanded + 1
             /\ problem'.nodes_generated = problem.nodes_generated + Len(neighbors')

C8_Counters == []CountersMatchCalls /\ [][CountersStep]_vars

\* after several expansions, one of which generated a neighbour that was not pushed
C8_Witness ==
    /\ JustExpanded
    /\ problem.nodes_expanded > 2
    /\ \E k \in 1..Len(neighbors) : state_tuple(nodes[neighbors[k]].node_state) \in explored
    /\ problem.nodes_generated > 2 * problem.nodes_expanded

(* C9: with the default goal, the initial board [[0,2,3],[1,5,6],[4,7,8]] and  *)
(* the Manhattan heuristic, a_star_solve returns a solution of depth 4, a path *)
(* of 5 boards.                                                                *)
ScenarioInitial == Board(<<0, 2, 3, 1, 5, 6, 4, 7, 8>>)

\* the call that ended was given the boards of the scenario
ScenarioEnded ==
    /\ pc \in Terminal
    /\ initial_state = ScenarioInitial
    /\ GoalBoard = DefaultGoal

C9_ScenarioDepth4 ==
    (ScenarioEnded /\ problem.use_manhattan) =>
        /\ pc = "Succeeded"
        /\ Len(path) = 5
        /\ nodes[path[Len(path)]].g = 4

\* the claim as stated: a solution of depth 6, a path of 7 boards
C9_ScenarioDepth6 ==
    (ScenarioEnded /\ problem.use_manhattan) =>
        /\ pc = "Succeeded"
        /\ Len(path) = 7
        /\ nodes[path[Len(path)]].g = 6

\* the search of the scenario with the Manhattan heuristic returned a path
C9_Witness == ScenarioEnded /\ problem.use_manhattan /\ pc = "Succeeded" /\ PathIsValid

(* C10: on the scenario of C9, the final nodes_expanded of a run with the      *)
(* Manhattan heuristic is not greater than that of a run with the Misplaced    *)
(* Tiles heuristic, each run on a fresh Problem.                               *)

\* the calls i and j of the caller: i with Manhattan, j with Misplaced Tiles, both
\* on the scenario's boards, each on a Problem whose counters were 0, both ended
ScenarioRuns(i, j) ==
    /\ initial_state = ScenarioInitial
    /\ GoalBoard = DefaultGoal
    /\ history[i].use_manhattan /\ ~history[j].use_manhattan
    /\ history[i].outcome = "Succeeded" /\ history[j].outcome = "Succeeded"
    /\ history[i].start_expanded = 0 /\ history[j].start_expanded = 0

C10_ManhattanNotMore ==
    \A i, j \in 1..Len(history) :
        ScenarioRuns(i, j) => history[i].nodes_expanded <= history[j].nodes_expanded

\* the claim as stated: strictly less
C10_ManhattanStrictlyLess ==
    \A i, j \in 1..Len(history) :
        ScenarioRuns(i, j) => history[i].nodes_expanded < history[j].nodes_expanded

\* both runs of the scenario ended, and both expanded nodes
C10_Witness ==
    \E i, j \in 1..Len(history) :
        ScenarioRuns(i, j) /\ history[i].nodes_expanded > 0 /\ history[j].nodes_expanded > 0

(* C11: two calls of a_star_solve with the same goal board, the same heuristic *)
(* and the same initial board end in the same outcome: both return None, or    *)
(* both return paths of the same length; also when the later call is made on   *)
(* the Problem of the earlier one, whose counters are no longer 0.             *)

\* the calls i and j of the caller ended and were given the same inputs (the goal
\* board and the initial board are those of every call of this caller)
SameInputs(i, j) ==
    /\ history[i].outcome # "Searching"
    /\ history[j].outcome # "Searching"
    /\ history[i].use_manhattan = history[j].use_manhattan

C11_SameOutcome ==
    \A i, j \in 1..Len(history) :
        SameInputs(i, j) =>
            /\ history[i].outcome = history[j].outcome
            /\ history[i].path_len = history[j].path_len

\* a second call on the Problem of the first, counters advanced, returned a path
\* of several moves as the first did
C11_Witness ==
    \E i, j \in 1..Len(history) :
        /\ i < j
        /\ SameInputs(i, j)
        /\ history[i].start_expanded = 0
        /\ history[j].start_expanded > 0
        /\ history[i].outcome = "Succeeded"
        /\ history[j].outcome = "Succeeded"
        /\ history[j].path_len > 3

\* two calls with the same inputs both returned None
C11_WitnessNone ==
    \E i, j \in 1..Len(history) :
        /\ i < j
        /\ SameInputs(i, j)
        /\ history[j].start_expanded > 0
        /\ history[i].outcome = "Failed"
        /\ history[j].outcome = "Failed"

(* C12: both heuristics are admissible.  For every valid board a search holds, *)
(* with a valid goal reachable from it, calculate_manhattan_distance and       *)
(* calculate_misplaced_tiles are each at least 0 and at most the breadth-first *)
(* distance between the board and the goal, and both are 0 on the goal board.  *)

\* the nodes the last step constructed: the initial node after the start of a
\* search, the neighbours after an expansion.  Every node of a search is among them
\* in the state that follows its construction.
FreshNodes ==
    IF pc # "Searching" THEN {}
    ELSE IF current_node = 0 THEN {1}
    ELSE {neighbors[k] : k \in 1..Len(neighbors)}

\* h is an admissible estimate for a board d moves from the goal
AdmissibleAt(h, d) == 0 <= h /\ h <= d

C12_Admissible ==
    ValidatedPair =>
        /\ calculate_manhattan_distance(problem, GoalBoard) = 0
        /\ calculate_misplaced_tiles(problem, GoalBoard) = 0
        /\ \A n \in FreshNodes :
              \A d \in {BfsDistance(nodes[n].node_state, GoalBoard)} :
                 d # -1 =>
                    /\ AdmissibleAt(calculate_manhattan_distance(problem, nodes[n].node_state), d)
                    /\ AdmissibleAt(calculate_misplaced_tiles(problem, nodes[n].node_state), d)
                    /\ nodes[n].h = calculate_heuristic(problem, nodes[n].node_state)

\* a generated board several moves from the goal on which the Manhattan distance
\* is exact and the misplaced-tiles count is below it
C12_Witness ==
    /\ ValidatedPair
    /\ \E n \in FreshNodes :
          LET s == nodes[n].node_state
              d == BfsDistance(s, GoalBoard)
          IN  /\ current_node # 0
              /\ d >= 4
              /\ calculate_manhattan_distance(problem, s) = d
              /\ calculate_misplaced_tiles(problem, s) < d
              /\ calculate_misplaced_tiles(problem, s) > 0

(* C13: the Manhattan heuristic is consistent.  For every valid board s a      *)
(* search holds and every board t one legal move from s,                       *)
(* calculate_manhattan_distance(s) <= 1 + calculate_manhattan_distance(t); the *)
(* boards get_neighbors builds from s are among those t.                       *)
C13_ManhattanConsistent ==
    ValidatedPair =>
        /\ \A n \in FreshNodes :
              \A hs \in {calculate_manhattan_distance(problem, nodes[n].node_state)} :
                 \A t \in Moves(nodes[n].node_state) :
                    hs <= 1 + calculate_manhattan_distance(problem, t)
        /\ JustExpanded =>
              \A hs \in {calculate_manhattan_distance(problem, nodes[current_node].node_state)} :
                 \A k \in 1..Len(neighbors) :
                    /\ LegalMove(nodes[current_node].node_state, nodes[neighbors[k]].node_state)
                    /\ hs <= 1 + calculate_manhattan_distance(problem, nodes[neighbors[k]].node_state)

\* an expansion one of whose neighbours is one nearer by the Manhattan distance and
\* another one farther
C13_Witness ==
    /\ ValidatedPair
    /\ JustExpanded
    /\ \E k, m \in 1..Len(neighbors) :
          LET h == calculate_manhattan_distance(problem, nodes[current_node].node_state)
          IN  /\ h = 1 + calculate_manhattan_distance(problem, nodes[neighbors[k]].node_state)
              /\ h + 1 = calculate_manhattan_distance(problem, nodes[neighbors[m]].node_state)

(* C14: at every pop of the loop the popped node has the least f = g + h of all *)
(* the nodes the frontier held at that moment: it was one of them, and none of *)
(* them has a smaller f.                                                       *)

\* f of the node a reference of the arena refers to
f(arena, n) == arena[n].g + arena[n].h

\* the step is a loop iteration that popped a node: GoalFound or Expand
PopStep == pc = "Searching" /\ Len(loop_tops') = Len(loop_tops) + 1

PoppedIsMinimum ==
    PopStep =>
        /\ \E k \in 1..Len(frontier) : frontier[k] = current_node'
        /\ \A k \in 1..Len(frontier) : f(nodes, current_node') <= f(nodes, frontier[k])

C14_PopsMinimum == [][PoppedIsMinimum]_vars

\* a node was popped from a frontier that held a node of the same f and a node of
\* greater f, both still there
C14_Witness ==
    /\ JustExpanded
    /\ \E k, m \in 1..Len(frontier) :
          /\ frontier[k] < neighbors[1]
          /\ frontier[m] < neighbors[1]
          /\ f(nodes, frontier[k]) = f(nodes, current_node)
          /\ f(nodes, frontier[m]) > f(nodes, current_node)

(* C15: a loop iteration that does not find the goal adds the popped node's   *)
(* board to the explored set, and the frontier after it holds what it held    *)
(* before, less the popped node, plus each generated neighbour whose board is *)
(* not in the explored set (the popped board included).  A neighbour whose    *)
(* board is explored is not pushed; the nodes that stay in the frontier are   *)
(* not changed, also when their board is generated again.                     *)

\* how often the reference n occurs in the list refs
Count(refs, n) == Cardinality({k \in 1..Len(refs) : refs[k] = n})

\* the step is a loop iteration that expanded a node and goes on
ExpandStep == pc = "Searching" /\ pc' = "Searching"

FrontierChange ==
    ExpandStep =>
        LET popped == current_node'
            pushed == {n \in {neighbors'[k] : k \in 1..Len(neighbors')} :
                          state_tuple(nodes'[n].node_state) \notin explored'}
        IN  /\ Count(frontier, popped) = 1
            /\ explored' = explored \cup {state_tuple(nodes[popped].node_state)}
            /\ \A k \in 1..Len(neighbors') : neighbors'[k] = Len(nodes) + k
            /\ \A n \in 1..Len(nodes) : nodes'[n] = nodes[n]
            /\ \A n \in 1..Len(nodes') :
                  Count(frontier', n) =
                      IF n = popped THEN 0
                      ELSE IF n \in pushed THEN 1
                      ELSE IF n > Len(nodes) THEN 0
                      ELSE Count(frontier, n)

C15_FrontierChange == [][FrontierChange]_vars

\* two nodes of the frontier hold the same board
FrontierHoldsDuplicates ==
    \E k, m \in 1..Len(frontier) :
        k < m /\ nodes[frontier[k]].node_state = nodes[frontier[m]].node_state

\* an expansion generated a neighbour that was not pushed and a neighbour whose
\* board is now twice in the frontier
C15_Witness ==
    /\ JustExpanded
    /\ \E k \in 1..Len(neighbors) : Count(frontier, neighbors[k]) = 0
    /\ \E k \in 1..Len(neighbors), m \in 1..Len(frontier) :
          /\ Count(frontier, neighbors[k]) = 1
          /\ frontier[m] # neighbors[k]
          /\ nodes[frontier[m]].node_state = nodes[neighbors[k]].node_state

(* C16: in a search given a validated pair of boards, the board of every node *)
(* constructed (the initial node and every generated neighbour) holds each of *)
(* 0..8 exactly once, so exactly one cell is 0, and the node's hole_location  *)
(* is the position of that 0.                                                 *)

\* the cells of board b that hold 0
HoleCells(b) == {c \in Cells : b[c[1]][c[2]] = 0}

NodeIsWellFormed(node) ==
    /\ ValidBoard(node.node_state)
    /\ \A v \in 0..8 : Cardinality({c \in Cells : node.node_state[c[1]][c[2]] = v}) = 1
    /\ HoleCells(node.node_state) = {node.hole_location}

C16_BoardsAreValid ==
    ValidatedPair => \A n \in FreshNodes : NodeIsWellFormed(nodes[n])

\* several expansions into a validated search, a neighbour was generated whose
\* hole is in the centre, away from the hole of its parent
C16_Witness ==
    /\ ValidatedPair
    /\ JustExpanded
    /\ problem.nodes_expanded > 3
    /\ \E k \in 1..Len(neighbors) :
          /\ nodes[neighbors[k]].hole_location = <<1, 1>>
          /\ nodes[current_node].hole_location # <<1, 1>>
          /\ NodeIsWellFormed(nodes[neighbors[k]])

(* C17: expansion changes no board that exists.  A step of a_star_solve leaves *)
(* every node of the arena as it was (board, g, h, parent and hole location;   *)
(* the expanding node among them), each neighbour is a new node with a board   *)
(* of its own, different from the board of the expanding node, and the         *)
(* caller's initial board, the goal board and the goal position index of the   *)
(* Problem are the same before and after every step of the search.             *)

\* the step belongs to a call of a_star_solve: its start or one loop iteration
SearchStep == pc' = "Searching" \/ pc = "Searching"

NothingIsMutated ==
    SearchStep =>
        /\ problem'.goal_state = problem.goal_state
        /\ problem'.goal_positions = problem.goal_positions
        /\ problem'.use_manhattan = problem.use_manhattan
        /\ pc = "Searching" =>
              /\ initial_state' = initial_state
              /\ Len(nodes') >= Len(nodes)
              /\ \A n \in 1..Len(nodes) : nodes'[n] = nodes[n]
              /\ \A k \in 1..Len(neighbors') :
                    neighbors' # neighbors =>
                        /\ neighbors'[k] > Len(nodes)
                        /\ nodes'[neighbors'[k]].parent_node = current_node'
                        /\ nodes'[neighbors'[k]].node_state # nodes[current_node'].node_state

\* the initial node holds the caller's board, and the goal position index is the
\* one Problem.__init__ built from the goal board
BoardsAreAsGiven ==
    /\ nodes # <<>> => nodes[1].node_state = initial_state
    /\ problem.goal_positions = goal_positions_of(problem.goal_state)

C17_NoMutation == []BoardsAreAsGiven /\ [][NothingIsMutated]_vars

\* a node that is itself a neighbour was expanded, and it and the initial node
\* hold the boards they were constructed with
C17_Witness ==
    /\ JustExpanded
    /\ nodes[current_node].parent_node # 0
    /\ Len(neighbors) >= 3
    /\ nodes[1].node_state = initial_state
    /\ \A k \in 1..Len(neighbors) :
          LegalMove(nodes[current_node].node_state, nodes[neighbors[k]].node_state)

(* C18: max_frontier_size is the running maximum of the frontier lengths      *)
(* measured at the top of the loop iterations executed, before the pop: while *)
(* a search runs and when it ends it is at least 1, not smaller than any      *)
(* length measured, and equal to the greatest of them; that is the value the  *)
(* caller is left with when a_star_solve ends.                                *)

\* the greatest of the lengths measured so far, 1 if none was
GreatestTop ==
    CHOOSE m \in {1} \cup {loop_tops[k] : k \in 1..Len(loop_tops)} :
        \A k \in 1..Len(loop_tops) : m >= loop_tops[k]

C18_MaxFrontier ==
    pc \in {"Searching", "Succeeded", "Failed"} =>
        /\ max_frontier_size >= 1
        /\ \A k \in 1..Len(loop_tops) : max_frontier_size >= loop_tops[k]
        /\ max_frontier_size = GreatestTop
        /\ pc # "Searching" => history[Len(history)].max_frontier_size = GreatestTop

\* a search ended whose frontier had been longer than it was at the last loop top
C18_Witness ==
    /\ pc \in {"Succeeded", "Failed"}
    /\ Len(loop_tops) > 3
    /\ max_frontier_size > loop_tops[Len(loop_tops)]
    /\ max_frontier_size = GreatestTop

(* C19: with either heuristic, the f = g + h of the nodes popped in the        *)
(* successive loop iterations of one search never decreases, and the first    *)
(* time a board is popped the g of its node is the breadth-first distance of  *)
(* the board from the initial board.                                          *)

\* the boards a search of the model can start from
SearchableInputs ==
    UNION {NearGoal[g] : g \in ValidGoals} \cup {SwappedDefault, UniformBoard, DefaultGoal}

\* for each of them, the levels of the breadth-first search from it, to a depth one
\* more than that of the deepest path the model returns
InitialLevels ==
    [s \in SearchableInputs |-> BfsLevels(<<{s}>>, {s}, MaxDepth + 1)]

\* the breadth-first distance of board b from the initial board; -1 beyond the levels
InitialDistance(b) ==
    LET levels == InitialLevels[initial_state]
        ds == {d \in 1..Len(levels) : b \in levels[d]}
    IN  IF ds = {} THEN -1 ELSE (CHOOSE d \in ds : TRUE) - 1

PoppedFNeverDecreases ==
    (PopStep /\ current_node # 0) => f(nodes, current_node') >= f(nodes, current_node)

\* a g within the levels computed is compared with the distance; a g that is too
\* great for a board within the levels is a difference the comparison finds
FirstPopHasShortestG ==
    (PopStep /\ state_tuple(nodes[current_node'].node_state) \notin explored) =>
        LET popped == nodes[current_node']
        IN  popped.g <= MaxDepth + 1 => popped.g = InitialDistance(popped.node_state)

C19_MonotoneF == [][PoppedFNeverDecreases /\ FirstPopHasShortestG]_vars

\* a search with the misplaced-tiles heuristic popped, for the first time, a board
\* several moves from the initial board, at an f greater than that of the initial node
C19_Witness ==
    /\ JustExpanded
    /\ ~problem.use_manhattan
    /\ nodes[current_node].g >= 3
    /\ nodes[current_node].g = InitialDistance(nodes[current_node].node_state)
    /\ f(nodes, current_node) > f(nodes, 1)
    /\ \A n \in 1..Len(nodes) :
          (n # current_node /\ nodes[n].node_state = nodes[current_node].node_state)
              => nodes[n].g >= nodes[current_node].g

(* C20: called with an initial board equal to the goal board, a_star_solve    *)
(* returns in its first loop iteration a path of one node, the initial node   *)
(* with g = 0 and no parent, without a call of get_neighbors, so the counters *)
(* of the Problem are what they were.  In general the goal test is applied to *)
(* the popped node: a search that succeeds has run one iteration more than it *)
(* has expanded nodes, and the goal node it returns is the node popped last.  *)

\* the last call, under way or ended
LastCall == history[Len(history)]

StartsAtGoal == history # <<>> /\ initial_state = GoalBoard

C20_GoalAtStart ==
    /\ (StartsAtGoal /\ pc = "Searching") => current_node = 0 /\ loop_tops = <<>>
    /\ (StartsAtGoal /\ pc # "Searching") =>
          /\ LastCall.outcome = "Succeeded"
          /\ LastCall.path_len = 1
          /\ LastCall.nodes_expanded = LastCall.start_expanded
          /\ LastCall.nodes_generated = LastCall.start_generated
          /\ path = <<1>>
          /\ nodes = <<[node_state |-> initial_state, parent_node |-> 0, g |-> 0, h |-> 0,
                        hole_location |-> get_hole_location(initial_state)]>>
          /\ neighbors = <<>>
          /\ Len(loop_tops) = 1
    /\ pc = "Succeeded" =>
          /\ path[Len(path)] = current_node
          /\ Count(frontier, current_node) = 0
          /\ Len(loop_tops) = problem.nodes_expanded - LastCall.start_expanded + 1
          /\ GoalBoard \notin ExploredBoards

\* a second call with the goal board as initial board returned the initial node alone
C20_Witness ==
    /\ StartsAtGoal
    /\ Len(history) = 2
    /\ pc = "Succeeded"
    /\ path = <<1>>
    /\ problem.nodes_expanded = 0

\* an expansion generated a node that holds the goal board, and the search goes on
C20_WitnessGenerated ==
    /\ JustExpanded
    /\ \E k \in 1..Len(neighbors) : nodes[neighbors[k]].node_state = GoalBoard

====
